---- MODULE Spec2Model ----
(***************************************************************************)
(* Model of the IP / resolver-latency dashboard:                           *)
(*   - the POST /api/ping route handler (timed upstream request),          *)
(*   - the client hook usePingMeasurements (ping, pingAll),                *)
(*   - the GET /api/ip route handler (address forwarding and relay),       *)
(*   - the IP panel of Home (Refresh and the effect that loads the data).  *)
(* Strings that the code transforms (ids, header values) are sequences of  *)
(* one-character strings; optional JavaScript values are << >> (undefined) *)
(* or <<v>>.                                                               *)
(***************************************************************************)
EXTENDS Integers, Sequences, FiniteSets, TLC

VARIABLES measurements, reqs, now, pingCalls, postsSent, extCalls, ipIn, ipOut,
          lastStarted,
          ipData, error, loading, refreshCount, fetches

vars == <<measurements, reqs, now, pingCalls, postsSent, extCalls, ipIn, ipOut,
          lastStarted, ipData, error, loading, refreshCount, fetches>>

ipVars == <<ipIn, ipOut>>

pingVars == <<measurements, reqs, now, pingCalls, postsSent, extCalls, lastStarted>>

\* The state of the IP panel of Home.
panelVars == <<ipData, error, loading, refreshCount, fetches>>

(***************************************************************************)
(* Bounds                                                                  *)
(***************************************************************************)
MaxCalls == 4

MaxPosts == 1

MaxLiveCalls == 2

MaxLen == 2

MaxTime == 1

MaxRefresh == 2

(***************************************************************************)
(* JavaScript values                                                       *)
(***************************************************************************)
None == << >>

Some(v) == <<v>>

UpperChars == <<"A","B","C","D","E","F","G","H","I","J","K","L","M",
                "N","O","P","Q","R","S","T","U","V","W","X","Y","Z">>

LowerChars == <<"a","b","c","d","e","f","g","h","i","j","k","l","m",
                "n","o","p","q","r","s","t","u","v","w","x","y","z">>

LowerTable ==
  [c \in {UpperChars[i] : i \in 1..26} |->
     LowerChars[CHOOSE i \in 1..26 : UpperChars[i] = c]]

LowerChar(c) == IF c \in DOMAIN LowerTable THEN LowerTable[c] ELSE c

toLowerCase(s) == [i \in 1..Len(s) |-> LowerChar(s[i])]

(***************************************************************************)
(* /api/ping route: the fixed targets                                      *)
(***************************************************************************)
google == <<"g","o","o","g","l","e">>

cloudflare == <<"c","l","o","u","d","f","l","a","r","e">>

opendns == <<"o","p","e","n","d","n","s">>

quad9 == <<"q","u","a","d","9">>

PING_TARGETS ==
  ( google     :> [id |-> Some(google), name |-> Some("Google DNS"),
                   host |-> Some("8.8.8.8"), url |-> Some("dns.google")] )
  @@
  ( cloudflare :> [id |-> Some(cloudflare), name |-> Some("Cloudflare DNS"),
                   host |-> Some("1.1.1.1"), url |-> Some("cloudflare-dns.com")] )
  @@
  ( opendns    :> [id |-> Some(opendns), name |-> Some("OpenDNS"),
                   host |-> Some("208.67.222.222"), url |-> Some("doh.opendns.com")] )
  @@
  ( quad9      :> [id |-> Some(quad9), name |-> Some("Quad9 DNS"),
                   host |-> Some("9.9.9.9"), url |-> Some("dns.quad9.net")] )

TargetIds == DOMAIN PING_TARGETS

\* Properties every object literal inherits from Object.prototype; the `in`
\* operator and the bracket lookup of the route see them as well as own keys.
constructorKey == <<"c","o","n","s","t","r","u","c","t","o","r">>

protoKey == <<"_","_","p","r","o","t","o","_","_">>

toStringKey == <<"t","o","S","t","r","i","n","g">>

valueOfKey == <<"v","a","l","u","e","O","f">>

InheritedKeys == {constructorKey, protoKey, toStringKey, valueOfKey}

\* Object (a function: its name is "Object") and Object.prototype have no
\* id, host or url property.
InheritedValue(k) ==
  [id |-> None,
   name |-> IF k = constructorKey THEN Some("Object") ELSE None,
   host |-> None, url |-> None]

InTargets(id) == id \in TargetIds \cup InheritedKeys

TargetOf(id) == IF id \in TargetIds THEN PING_TARGETS[id] ELSE InheritedValue(id)

(***************************************************************************)
(* Request bodies of POST /api/ping                                        *)
(***************************************************************************)
bing == <<"b","i","n","g">>

BodyStrings ==
  { google, <<"G","o","o","g","l","e">>, cloudflare, opendns,
    <<"Q","U","A","D","9">>, quad9, bing, << >>, constructorKey,
    <<"_","_","P","R","O","T","O","_","_">>, toStringKey }

\* parses = FALSE: req.json() throws.  t is the typeof of body?.id.
Bodies ==
  { [parses |-> FALSE, t |-> "undefined", s |-> << >>] }
  \cup { [parses |-> TRUE, t |-> ty, s |-> << >>] : ty \in {"undefined", "number"} }
  \cup { [parses |-> TRUE, t |-> "string", s |-> c] : c \in BodyStrings }

ClientBody(id) == [parses |-> TRUE, t |-> "string", s |-> id]

\* The id the handler works with: << >> is undefined, <<s>> a string.
ParsedId(body) ==
  IF body.parses /\ body.t = "string" THEN Some(toLowerCase(body.s)) ELSE None

IsValidId(oid) == oid # None /\ oid[1] # << >> /\ InTargets(oid[1])

UpstreamStatuses == {200, 299, 300, 503}

\* Mutant: the upper end of the 2xx range is off by one.
ResponseOkUpTo300(status) == status >= 200 /\ status <= 300

\* response.ok
ResponseOk(status) == status >= 200 /\ status <= 299

NoPayload ==
  [id |-> None, name |-> None, host |-> None, ok |-> None,
   latencyMs |-> None, httpStatus |-> None, error |-> None]

NoResp == [status |-> 0, payload |-> NoPayload]

InvalidResponse ==
  [status |-> 400,
   payload |-> [NoPayload EXCEPT !.error = Some("Invalid or missing ping target id")]]

\* Mutant: the two timestamps are subtracted the wrong way round.
LatencyReversed(start, end) == start - end

\* performance.now() - start
LatencyOf(start, end) == end - start

SuccessResponse(target, status, latencyMs) ==
  [status |-> 200,
   payload |-> [id |-> target.id, name |-> target.name, host |-> target.host,
                ok |-> Some(ResponseOk(status)), latencyMs |-> Some(latencyMs),
                httpStatus |-> Some(status), error |-> None]]

\* Mutant: the failure answer carries an httpStatus as well.
FailureWithStatus(target) ==
  [status |-> 504,
   payload |-> [id |-> target.id, name |-> target.name, host |-> target.host,
                ok |-> Some(FALSE), latencyMs |-> None,
                httpStatus |-> Some(504), error |-> Some("Failed to reach DNS endpoint")]]

FailureResponse(target) ==
  [status |-> 504,
   payload |-> [id |-> target.id, name |-> target.name, host |-> target.host,
                ok |-> Some(FALSE), latencyMs |-> None,
                httpStatus |-> None, error |-> Some("Failed to reach DNS endpoint")]]

\* Every answer the route can give to a body, for the given upstream
\* statuses and latencies.
RouteAnswers(body, statuses, latencies) ==
  IF ~IsValidId(ParsedId(body)) THEN {InvalidResponse}
  ELSE LET target == TargetOf(ParsedId(body)[1]) IN
       {FailureResponse(target)}
       \cup (IF target.url = None THEN {}
             ELSE {SuccessResponse(target, s, l) : s \in statuses, l \in latencies})

(***************************************************************************)
(* One POST /api/ping exchange.  origin "client" is a ping(id) call of the *)
(* page, "external" any other caller.  cst is the state of the client's    *)
(* ping call, stage the state of the route handler.  reqs lists the        *)
(* exchanges in the order they were started; an exchange leaves the list   *)
(* when the page has handled its outcome.                                  *)
(***************************************************************************)
NewReq(origin, body) ==
  [origin |-> origin, body |-> body,
   cst |-> IF origin = "client" THEN "waiting" ELSE "none",
   stage |-> "posted", upstream |-> 0,
   start |-> 0, tRead |-> 0,
   upStatus |-> 0, outcome |-> "none", resp |-> NoResp]

\* POST, lines 47-72: validation, start timestamp, the upstream fetch.
\* fetch() of an undefined url rejects without a request being sent.
Handled(r, t) ==
  LET oid == ParsedId(r.body) IN
  IF ~IsValidId(oid)
    THEN [r EXCEPT !.stage = "responded", !.resp = InvalidResponse]
    ELSE [r EXCEPT !.stage = "fetching", !.start = t,
                   !.upstream = IF TargetOf(oid[1]).url # None THEN @ + 1 ELSE @]

ReqTarget(r) == TargetOf(ParsedId(r.body)[1])

UpstreamSent(r) == r.upstream > 0

\* Mutant: the catch branch sends the upstream request once more.
CaughtRetry(r) ==
  IF r.upstream = 1
    THEN [r EXCEPT !.stage = "fetching", !.upstream = @ + 1]
    ELSE [r EXCEPT !.stage = "responded", !.resp = FailureResponse(ReqTarget(r)),
                   !.outcome = "failed", !.start = 0, !.upStatus = 0]

\* lines 84-96: the catch branch answers 504 and does nothing else.
Caught(r) ==
  [r EXCEPT !.stage = "responded", !.resp = FailureResponse(ReqTarget(r)),
            !.outcome = "failed", !.start = 0, !.upStatus = 0]

\* lines 73-83: body read, end timestamp, the 200 answer.
Answered(r, t) ==
  [r EXCEPT !.stage = "responded", !.tRead = t, !.outcome = "completed",
            !.resp = SuccessResponse(ReqTarget(r), r.upStatus, LatencyOf(r.start, t))]

(***************************************************************************)
(* Client: usePingMeasurements                                             *)
(***************************************************************************)
pingTargets ==
  << [id |-> google,     name |-> "Google DNS",     host |-> "8.8.8.8",
      ok |-> FALSE, latencyMs |-> None, httpStatus |-> None, error |-> None,
      isLoading |-> None],
     [id |-> cloudflare, name |-> "Cloudflare DNS", host |-> "1.1.1.1",
      ok |-> FALSE, latencyMs |-> None, httpStatus |-> None, error |-> None,
      isLoading |-> None],
     [id |-> opendns,    name |-> "OpenDNS",        host |-> "208.67.222.222",
      ok |-> FALSE, latencyMs |-> None, httpStatus |-> None, error |-> None,
      isLoading |-> None],
     [id |-> quad9,      name |-> "Quad9 DNS",      host |-> "9.9.9.9",
      ok |-> FALSE, latencyMs |-> None, httpStatus |-> None, error |-> None,
      isLoading |-> None] >>

\* { ...item, ...partial }
Spread(item, partial) ==
  [f \in DOMAIN item |-> IF f \in DOMAIN partial THEN partial[f] ELSE item[f]]

\* Mutant: the partial is merged into every item, whatever its id.
updateEveryMeasurement(prev, id, partial) ==
  [i \in 1..Len(prev) |-> Spread(prev[i], partial)]

updateMeasurement(prev, id, partial) ==
  [i \in 1..Len(prev) |-> IF prev[i].id = id THEN Spread(prev[i], partial) ELSE prev[i]]

StartPartial == [isLoading |-> Some(TRUE), error |-> None]

\* Boolean(payload.ok)
ToBoolean(o) == o # None /\ o[1] = TRUE

ResultPartial(payload) ==
  [ok |-> ToBoolean(payload.ok), latencyMs |-> payload.latencyMs,
   httpStatus |-> payload.httpStatus, error |-> payload.error,
   isLoading |-> Some(FALSE)]

\* Mutant: the catch branch leaves isLoading as it is.
CatchPartialStillLoading == [ok |-> FALSE, error |-> Some("Ping error")]

CatchPartial == [ok |-> FALSE, error |-> Some("Ping error"), isLoading |-> Some(FALSE)]

Without(q, k) == [i \in 1..(Len(q) - 1) |-> IF i < k THEN q[i] ELSE q[i + 1]]

\* History, not state of the page: for each target, whether the ping started
\* last for it is still waiting, and the partial it delivered once it is not.
NeverStarted == [pending |-> FALSE, result |-> None]

Pending == [pending |-> TRUE, result |-> None]

\* Call k of q is the ping started last for its id: no later call for the
\* same id is waiting, and none has completed already.
IsLastStarted(st, k) ==
  /\ st.last[st.q[k].body.s].pending
  /\ \A j \in (k + 1)..Len(st.q) :
       ~(st.q[j].cst = "waiting" /\ st.q[j].body.s = st.q[k].body.s)

Delivered(st, k, partial) ==
  IF IsLastStarted(st, k)
    THEN [st.last EXCEPT ![st.q[k].body.s] = [pending |-> FALSE, result |-> Some(partial)]]
    ELSE st.last

\* ping(id) up to its first await: mark loading, send one POST.
StartPing(st, id) ==
  [m |-> updateMeasurement(st.m, id, StartPartial),
   q |-> Append(st.q, NewReq("client", ClientBody(id))),
   calls |-> st.calls + 1,
   posts |-> st.posts + 1,
   last |-> [st.last EXCEPT ![id] = Pending]]

\* Mutant: each ping is awaited, so the call itself starts only the first.
StartFirstOnly(st, i) == StartPing(st, pingTargets[1].id)

\* pingAll: pingTargets.forEach((target) => void ping(target.id))
RECURSIVE StartAll(_, _)
StartAll(st, i) ==
  IF i > Len(pingTargets) THEN st
  ELSE StartAll(StartPing(st, pingTargets[i].id), i + 1)

\* ping(id) after the response was parsed: one update, nothing is sent.
AfterResult(st, k) ==
  [st EXCEPT !.m = updateMeasurement(st.m, st.q[k].body.s,
                                     ResultPartial(st.q[k].resp.payload)),
             !.q = Without(st.q, k),
             !.last = Delivered(st, k, ResultPartial(st.q[k].resp.payload))]

\* The catch branch of ping: one update, nothing is sent.  The route goes
\* on with a request it has already received.
AfterCatch(st, k) ==
  [st EXCEPT !.m = updateMeasurement(st.m, st.q[k].body.s, CatchPartial),
             !.q = IF st.q[k].stage \in {"fetching", "reading"}
                     THEN [st.q EXCEPT ![k].cst = "done"]
                     ELSE Without(st.q, k),
             !.last = Delivered(st, k, CatchPartial)]

ClientState ==
  [m |-> measurements, q |-> reqs, calls |-> pingCalls, posts |-> postsSent,
   last |-> lastStarted]

Install(st) ==
  /\ measurements' = st.m
  /\ reqs' = st.q
  /\ pingCalls' = st.calls
  /\ postsSent' = st.posts
  /\ lastStarted' = st.last

(***************************************************************************)
(* Actions                                                                 *)
(***************************************************************************)
Ping(id) ==
  /\ Install(StartPing(ClientState, id))
  /\ UNCHANGED <<now, extCalls, ipVars, panelVars>>

PingAll ==
  /\ Install(StartAll(ClientState, 1))
  /\ UNCHANGED <<now, extCalls, ipVars, panelVars>>

ExternalPost(body) ==
  /\ reqs' = Append(reqs, NewReq("external", body))
  /\ extCalls' = extCalls + 1
  /\ UNCHANGED <<measurements, now, pingCalls, postsSent, lastStarted, ipVars, panelVars>>

PostHandle(k) ==
  /\ reqs[k].stage = "posted"
  /\ reqs' = [reqs EXCEPT ![k] = Handled(@, now)]
  /\ UNCHANGED <<measurements, now, pingCalls, postsSent, extCalls, lastStarted, ipVars,
               panelVars>>

FetchResolve(k, status) ==
  /\ reqs[k].stage = "fetching"
  /\ UpstreamSent(reqs[k])
  /\ reqs' = [reqs EXCEPT ![k] = [@ EXCEPT !.stage = "reading", !.upStatus = status]]
  /\ UNCHANGED <<measurements, now, pingCalls, postsSent, extCalls, lastStarted, ipVars,
               panelVars>>

FetchReject(k) ==
  /\ reqs[k].stage = "fetching"
  /\ reqs' = [reqs EXCEPT ![k] = Caught(@)]
  /\ UNCHANGED <<measurements, now, pingCalls, postsSent, extCalls, lastStarted, ipVars,
               panelVars>>

BodyRead(k) ==
  /\ reqs[k].stage = "reading"
  /\ reqs' = [reqs EXCEPT ![k] = Answered(@, now)]
  /\ UNCHANGED <<measurements, now, pingCalls, postsSent, extCalls, lastStarted, ipVars,
               panelVars>>

BodyFail(k) ==
  /\ reqs[k].stage = "reading"
  /\ reqs' = [reqs EXCEPT ![k] = Caught(@)]
  /\ UNCHANGED <<measurements, now, pingCalls, postsSent, extCalls, lastStarted, ipVars,
               panelVars>>

\* fetch resolved and response.json() parsed: lines 205-213.  The route is
\* followed step by step (SpecRoute).
PingFulfilled(k) ==
  /\ reqs[k].cst = "waiting"
  /\ reqs[k].stage = "responded"
  /\ Install(AfterResult(ClientState, k))
  /\ UNCHANGED <<now, extCalls, ipVars, panelVars>>

\* fetch rejected, or response.json() rejected: lines 214-221.
PingCatch(k) ==
  /\ reqs[k].cst = "waiting"
  /\ Install(AfterCatch(ClientState, k))
  /\ UNCHANGED <<now, extCalls, ipVars, panelVars>>

Tick ==
  /\ now < MaxTime
  /\ now' = now + 1
  /\ UNCHANGED <<measurements, reqs, pingCalls, postsSent, extCalls, lastStarted, ipVars,
               panelVars>>

(***************************************************************************)
(* GET /api/ip route                                                       *)
(***************************************************************************)
HeaderChars == {"7", ",", " "}

Strings(n) == UNION { [1..m -> HeaderChars] : m \in 0..n }

\* req.headers.get(name): null (<< >>) or a string.
HeaderValues == {None} \cup { Some(str) : str \in Strings(MaxLen) }

\* value.split(","): the pieces between the commas, in order.
RECURSIVE Split(_, _)
Split(str, sep) ==
  IF \A i \in 1..Len(str) : str[i] # sep THEN << str >>
  ELSE LET c == CHOOSE i \in 1..Len(str) :
                   str[i] = sep /\ \A j \in 1..(i - 1) : str[j] # sep
       IN << SubSeq(str, 1, c - 1) >> \o Split(SubSeq(str, c + 1, Len(str)), sep)

RECURSIVE TrimStart(_)
TrimStart(str) ==
  IF str # << >> /\ str[1] = " " THEN TrimStart(Tail(str)) ELSE str

RECURSIVE TrimEnd(_)
TrimEnd(str) ==
  IF str # << >> /\ str[Len(str)] = " " THEN TrimEnd(SubSeq(str, 1, Len(str) - 1)) ELSE str

trim(str) == TrimEnd(TrimStart(str))

Falsy(o) == o = None \/ o[1] = << >>

sanitizeIp(value) ==
  IF Falsy(value) THEN None ELSE Some(trim(Split(value[1], ",")[1]))

\* a || b
Or(a, b) == IF Falsy(a) THEN b ELSE a

\* Mutant: x-real-ip is consulted before x-forwarded-for.
RealIpFirst(h) ==
  Or(Or(Or(sanitizeIp(h.xri), sanitizeIp(h.xff)), sanitizeIp(h.xci)), None)

RealIp(h) ==
  Or(Or(Or(sanitizeIp(h.xff), sanitizeIp(h.xri)), sanitizeIp(h.xci)), None)

EncodeChar(c) == IF c = " " THEN "%20" ELSE IF c = "," THEN "%2C" ELSE c

DecodeChar(c) == IF c = "%20" THEN " " ELSE IF c = "%2C" THEN "," ELSE c

encodeURIComponent(str) == [i \in 1..Len(str) |-> EncodeChar(str[i])]

decodeURIComponent(str) == [i \in 1..Len(str) |-> DecodeChar(str[i])]

\* The path of the upstream url: "/" followed by the encoded address, or "/".
Search(realIp) ==
  IF Falsy(realIp) THEN << "/" >> ELSE << "/" >> \o encodeURIComponent(realIp[1])

\* What the upstream looks up: the decoded path segment, if there is one.
LookedUp(search) ==
  IF Len(search) = 1 THEN None ELSE Some(decodeURIComponent(Tail(search)))

\* Upstream documents: objects as functions from field names to values.
Docs ==
  { [ip |-> "7.7.7.7"],
    [ip |-> "7.7.7.7", type |-> "IPv4"],
    [ip |-> "7.7.7.7", success |-> FALSE],
    [success |-> TRUE, message |-> "ok"] }

IpStatuses == {200, 201, 304, 403, 429, 500}

\* The statuses a response with a body may not have: constructing one throws.
NullBodyStatuses == {101, 204, 205, 304}

\* { success: true, ...data }
RelayBody(data) ==
  [f \in {"success"} \cup DOMAIN data |-> IF f \in DOMAIN data THEN data[f] ELSE TRUE]

UpstreamFailedBody(status) ==
  [success |-> FALSE, message |-> "Failed to query upstream IP service", status |-> status]

UnableBody == [success |-> FALSE, message |-> "Unable to fetch IP details"]

\* An upstream outcome: the fetch throws, or answers with a status and a
\* body that parses to a document or does not parse.
UpstreamOutcomes ==
  { [kind |-> "throws", status |-> 0, parses |-> FALSE, doc |-> << >>] }
  \cup { [kind |-> "answers", status |-> st, parses |-> FALSE, doc |-> << >>] :
           st \in IpStatuses }
  \cup { [kind |-> "answers", status |-> st, parses |-> TRUE, doc |-> d] :
           st \in IpStatuses, d \in Docs }

\* GET, lines 21-46.
IpResponse(up) ==
  IF up.kind = "throws" THEN [status |-> 500, body |-> UnableBody]
  ELSE IF ~ResponseOk(up.status)
    THEN IF up.status \in NullBodyStatuses
           THEN [status |-> 500, body |-> UnableBody]
           ELSE [status |-> up.status, body |-> UpstreamFailedBody(up.status)]
  ELSE IF ~up.parses THEN [status |-> 500, body |-> UnableBody]
  ELSE [status |-> 200, body |-> RelayBody(up.doc)]

NoHeaders == [xff |-> None, xri |-> None, xci |-> None]

IdleIp == [stage |-> "idle", headers |-> NoHeaders, search |-> << >>]

NoIpOut ==
  [up |-> [kind |-> "none", status |-> 0, parses |-> FALSE, doc |-> << >>],
   resp |-> [status |-> 0, body |-> << >>]]

\* GET, lines 11-25: the address is chosen and the upstream request is sent.
IpGet(xff, xri, xci) ==
  /\ ipIn.stage = "idle"
  /\ LET h == [xff |-> xff, xri |-> xri, xci |-> xci] IN
       ipIn' = [stage |-> "fetching", headers |-> h, search |-> Search(RealIp(h))]
  /\ ipOut' = NoIpOut
  /\ UNCHANGED <<measurements, reqs, now, pingCalls, postsSent, extCalls, lastStarted,
               panelVars>>

\* The upstream outcome arrives and the handler answers.
IpAnswer(up) ==
  /\ ipIn.stage = "fetching"
  /\ ipOut' = [up |-> up, resp |-> IpResponse(up)]
  /\ ipIn' = [IdleIp EXCEPT !.stage = "answered"]
  /\ UNCHANGED <<measurements, reqs, now, pingCalls, postsSent, extCalls, lastStarted,
               panelVars>>

\* The response is sent; the handler keeps nothing.
IpClose ==
  /\ ipIn.stage = "answered"
  /\ ipIn' = IdleIp
  /\ ipOut' = NoIpOut
  /\ UNCHANGED <<measurements, reqs, now, pingCalls, postsSent, extCalls, lastStarted,
               panelVars>>

(***************************************************************************)
(* Client: the IP panel of Home.  Each run of the effect on refreshCount   *)
(* has its own flag active and its own call of fetchIpData; fetches lists  *)
(* the runs in the order they were started.                                *)
(***************************************************************************)
\* What the page's fetch("/api/ip") can come to: it rejects, or resolves
\* with an answer of the route, or with a body that is not JSON (an error
\* page of the host).
PanelOutcomes ==
  { [kind |-> "rejects", status |-> 0, parses |-> FALSE, body |-> << >>],
    [kind |-> "answers", status |-> 502, parses |-> FALSE, body |-> << >>] }
  \cup { [kind |-> "answers", status |-> IpResponse(up).status, parses |-> TRUE,
          body |-> IpResponse(up).body] : up \in UpstreamOutcomes }

NoOutcome == [kind |-> "none", status |-> 0, parses |-> FALSE, body |-> << >>]

NewFetch == [active |-> TRUE, stage |-> "pending", outcome |-> NoOutcome]

PanelState ==
  [ipData |-> ipData, error |-> error, loading |-> loading,
   refreshCount |-> refreshCount, fetches |-> fetches]

InstallPanel(p) ==
  /\ ipData' = p.ipData
  /\ error' = p.error
  /\ loading' = p.loading
  /\ refreshCount' = p.refreshCount
  /\ fetches' = p.fetches

\* The onClick of the Refresh button, lines 484-489.
RefreshClicked(p) ==
  [p EXCEPT !.ipData = None, !.error = None, !.loading = TRUE,
            !.refreshCount = @ + 1]

\* The cleanup of the effect run before: active = false (lines 271-273).
EffectCleanup(p) ==
  [p EXCEPT !.fetches[Len(p.fetches)].active = FALSE]

\* A run of the effect: fetchIpData up to its first await (lines 241-247).
EffectRun(p) ==
  [p EXCEPT !.loading = TRUE, !.error = None, !.fetches = Append(@, NewFetch)]

\* !response.ok || payload?.success === false, or an exception before it.
Throws(o) ==
  \/ o.kind = "rejects"
  \/ ~o.parses
  \/ ~ResponseOk(o.status)
  \/ ("success" \in DOMAIN o.body /\ o.body.success = FALSE)

\* Mutant: the outcome is stored whether the run is active or not.
FetchSettledUnguarded(p, k, o) ==
  [p EXCEPT !.ipData = IF ~Throws(o) THEN Some(o.body) ELSE @,
            !.error = IF Throws(o)
                        THEN Some("Failed to load IP intelligence data. Try refreshing.")
                        ELSE @,
            !.loading = FALSE,
            !.fetches[k] = [@ EXCEPT !.stage = "done", !.outcome = o]]

\* fetchIpData after its awaits: lines 248-266.
FetchSettled(p, k, o) ==
  LET on == p.fetches[k].active IN
  [p EXCEPT !.ipData = IF on /\ ~Throws(o) THEN Some(o.body) ELSE @,
            !.error = IF on /\ Throws(o)
                        THEN Some("Failed to load IP intelligence data. Try refreshing.")
                        ELSE @,
            !.loading = IF on THEN FALSE ELSE @,
            !.fetches[k] = [@ EXCEPT !.stage = "done", !.outcome = o]]

\* A click on Refresh: the handler, then the render it causes runs the
\* cleanup of the last effect and the effect again, before any response is
\* handled.
Refresh ==
  /\ InstallPanel(EffectRun(EffectCleanup(RefreshClicked(PanelState))))
  /\ UNCHANGED <<pingVars, ipVars>>

IpSettled(k, o) ==
  /\ fetches[k].stage = "pending"
  /\ InstallPanel(FetchSettled(PanelState, k, o))
  /\ UNCHANGED <<pingVars, ipVars>>

\* Home after its first render and the first run of the effect.
InitPanel ==
  /\ ipData = None
  /\ error = None
  /\ loading = TRUE
  /\ refreshCount = 0
  /\ fetches = << NewFetch >>

InitPing ==
  /\ measurements = pingTargets
  /\ reqs = << >>
  /\ now = 0
  /\ pingCalls = 0
  /\ postsSent = 0
  /\ extCalls = 0
  /\ lastStarted = [id \in TargetIds |-> NeverStarted]

InitIp ==
  /\ ipIn = IdleIp
  /\ ipOut = NoIpOut

Init == InitPing /\ InitIp /\ InitPanel

\* The same, seen from the page: the POST of call k is answered by resp, one
\* of the answers of the route, and the answer is parsed.
PingSettled(k, resp) ==
  /\ reqs[k].cst = "waiting"
  /\ reqs[k].stage = "posted"
  /\ Install(AfterResult([ClientState EXCEPT !.q[k].resp = resp], k))
  /\ UNCHANGED <<now, extCalls, ipVars, panelVars>>

\* The page does not branch on the status or the latency it is given: one
\* 2xx and one other status, and two latencies, give every shape of answer.
PageStatuses == {200, 503}

PageLatencies == {0, MaxTime}

\* The page; the route answers each POST in one step.
Next ==
  \/ \E id \in TargetIds : pingCalls + 1 <= MaxCalls /\ Ping(id)
  \/ pingCalls + Len(pingTargets) <= MaxCalls /\ PingAll
  \/ \E k \in 1..Len(reqs) :
       \E resp \in RouteAnswers(reqs[k].body, PageStatuses, PageLatencies) :
         PingSettled(k, resp)
  \/ \E k \in 1..Len(reqs) : PingCatch(k)

Spec == Init /\ [][Next]_vars

\* The page for the progress property: pingAll as the mount effect calls it,
\* or a few button pings (which may overlap on one target).
NextLive ==
  \/ \E id \in TargetIds : pingCalls + 1 <= MaxLiveCalls /\ Ping(id)
  \/ pingCalls = 0 /\ PingAll
  \/ \E k \in 1..Len(reqs) :
       \E resp \in RouteAnswers(reqs[k].body, PageStatuses, PageLatencies) :
         PingSettled(k, resp)
  \/ \E k \in 1..Len(reqs) : PingCatch(k)

\* Every request of the page to /api/ping eventually resolves or rejects:
\* the oldest request in flight does, so each one does in its turn.
OldestCompletes ==
  /\ reqs # << >>
  /\ \/ \E resp \in RouteAnswers(reqs[1].body, PageStatuses, PageLatencies) :
          PingSettled(1, resp)
     \/ PingCatch(1)

FairSpec == Init /\ [][NextLive]_vars /\ WF_vars(OldestCompletes)

\* The route step by step under a clock that advances, called by the page
\* or by any other caller with any body.
NextRoute ==
  \/ \E id \in TargetIds : pingCalls + extCalls < MaxPosts /\ Ping(id)
  \/ \E b \in Bodies : pingCalls + extCalls < MaxPosts /\ ExternalPost(b)
  \/ \E k \in 1..Len(reqs) : PostHandle(k)
  \/ \E k \in 1..Len(reqs), s \in UpstreamStatuses : FetchResolve(k, s)
  \/ \E k \in 1..Len(reqs) : FetchReject(k)
  \/ \E k \in 1..Len(reqs) : BodyRead(k)
  \/ \E k \in 1..Len(reqs) : BodyFail(k)
  \/ \E k \in 1..Len(reqs) : PingFulfilled(k)
  \/ \E k \in 1..Len(reqs) : PingCatch(k)
  \/ Tick

SpecRoute == Init /\ [][NextRoute]_vars

NextIp ==
  \/ \E xff \in HeaderValues, xri \in HeaderValues, xci \in HeaderValues :
       IpGet(xff, xri, xci)
  \/ \E up \in UpstreamOutcomes : IpAnswer(up)
  \/ IpClose

SpecIp == Init /\ [][NextIp]_vars

\* The IP panel: Refresh clicks and the outcomes of the fetches, in any order.
NextPanel ==
  \/ refreshCount < MaxRefresh /\ Refresh
  \/ \E k \in 1..Len(fetches), o \in PanelOutcomes : IpSettled(k, o)

SpecPanel == Init /\ [][NextPanel]_vars

(***************************************************************************)
(* Properties of the route (SpecRoute)                                     *)
(***************************************************************************)
\* The body's id is a string that, lowercased, is one of the four target ids.
NamesTarget(body) ==
  body.parses /\ body.t = "string"
  /\ toLowerCase(body.s) \in {google, cloudflare, opendns, quad9}

Responded(r) == r.stage = "responded"

\* C1: POST /api/ping issues an upstream request only when the body's id,
\* lowercased, is one of the four target ids; every other request is answered
\* with HTTP 400 and an error message, and issues no upstream request.
C1_OnlyFourTargets ==
  \A k \in 1..Len(reqs) :
    LET r == reqs[k] IN
      /\ r.upstream > 0 => NamesTarget(r.body)
      /\ (r.stage # "posted" /\ ~NamesTarget(r.body)) =>
           /\ Responded(r)
           /\ r.resp.status = 400
           /\ r.resp.payload.error # None
           /\ r.upstream = 0

\* C2: every answer for a valid target carries that target's id, name and
\* host and a boolean ok; latencyMs and httpStatus are present exactly when
\* the upstream request completed, error (with ok = false) exactly when it
\* did not; and the answer is one of RouteAnswers.
C2_UniformShape ==
  \A k \in 1..Len(reqs) :
    LET r == reqs[k]
        p == r.resp.payload
        t == PING_TARGETS[toLowerCase(r.body.s)]
    IN (Responded(r) /\ NamesTarget(r.body)) =>
         /\ p.id = t.id /\ p.name = t.name /\ p.host = t.host
         /\ p.id # None /\ p.name # None /\ p.host # None
         /\ p.ok \in {Some(TRUE), Some(FALSE)}
         /\ (p.latencyMs # None) <=> (r.outcome = "completed")
         /\ (p.httpStatus # None) <=> (r.outcome = "completed")
         /\ (p.error # None) <=> (r.outcome = "failed")
         /\ (p.error # None) => (p.ok = Some(FALSE))
         /\ r.outcome \in {"completed", "failed"}
         /\ r.resp \in RouteAnswers(r.body, UpstreamStatuses, 0..MaxTime)

C2_Witness ==
  \E k \in 1..Len(reqs) :
    /\ Responded(reqs[k]) /\ NamesTarget(reqs[k].body)
    /\ reqs[k].outcome = "failed"
    /\ reqs[k].resp.payload.error # None

\* C3: no retry.  A POST issues at most one upstream request, and the page
\* has sent exactly one POST for each ping call, whatever the outcomes.
C3_NoRetry ==
  /\ postsSent = pingCalls
  /\ Len(reqs) <= pingCalls + extCalls
  /\ \A k \in 1..Len(reqs) : reqs[k].upstream <= 1

C3_Witness ==
  /\ pingCalls = 1
  /\ postsSent = 1
  /\ \E k \in 1..Len(reqs) :
       /\ reqs[k].origin = "client"
       /\ reqs[k].outcome = "failed"
       /\ reqs[k].upstream = 1

\* C8: for a valid target ok is true exactly when the upstream request
\* completed with a 2xx status; a completed request with another status is
\* answered 200 with ok = false, that httpStatus and a latencyMs; 504 is
\* answered exactly when the request or the body read did not complete.
C8_OkIff2xx ==
  \A k \in 1..Len(reqs) :
    LET r == reqs[k]
        p == r.resp.payload
        twoxx == r.upStatus >= 200 /\ r.upStatus <= 299
    IN (Responded(r) /\ NamesTarget(r.body)) =>
         /\ (p.ok = Some(TRUE)) <=> (r.outcome = "completed" /\ twoxx)
         /\ (r.outcome = "completed" /\ ~twoxx) =>
              /\ r.resp.status = 200
              /\ p.ok = Some(FALSE)
              /\ p.httpStatus = Some(r.upStatus)
              /\ p.latencyMs # None
         /\ (r.outcome = "completed") => (r.resp.status = 200)
         /\ (r.resp.status = 504) <=> (r.outcome = "failed")

C8_Witness ==
  \E k \in 1..Len(reqs) :
    /\ Responded(reqs[k]) /\ NamesTarget(reqs[k].body)
    /\ reqs[k].outcome = "completed"
    /\ reqs[k].upStatus = 300
    /\ reqs[k].resp.payload.ok = Some(FALSE)

\* C10: the reported latencyMs is the time from the start timestamp, taken
\* when the upstream request is issued, to the end of the body read; it is
\* never negative, and a failed request or body read reports no latencyMs.
C10_LatencySpansExchange ==
  \A k \in 1..Len(reqs) :
    LET r == reqs[k]
        p == r.resp.payload
    IN Responded(r) =>
         /\ (r.outcome = "completed") =>
              /\ p.latencyMs = Some(r.tRead - r.start)
              /\ r.start <= r.tRead
              /\ p.latencyMs[1] >= 0
         /\ (r.outcome # "completed") => (p.latencyMs = None)

C10_Witness ==
  \E k \in 1..Len(reqs) :
    /\ Responded(reqs[k])
    /\ reqs[k].outcome = "completed"
    /\ reqs[k].tRead > reqs[k].start
    /\ reqs[k].resp.payload.latencyMs = Some(1)

(***************************************************************************)
(* Properties of the page (Spec, FairSpec)                                 *)
(***************************************************************************)
Loading(i) == measurements[i].isLoading = Some(TRUE)

\* The step leaves every measurement but that of id as it was.
OnlyChanges(id) ==
  \A j \in 1..Len(measurements) :
    measurements[j].id # id => measurements'[j] = measurements[j]

\* The step is the start of one ping for id: one call more, one request more.
StartsPing(id) ==
  /\ pingCalls' = pingCalls + 1
  /\ Len(reqs') = Len(reqs) + 1
  /\ reqs'[Len(reqs')].body.s = id

\* The step is the completion of call k: the call leaves the list.
Ends(k) ==
  /\ pingCalls' = pingCalls
  /\ Len(reqs') = Len(reqs) - 1
  /\ reqs' = Without(reqs, k)

\* C4: pingAll starts exactly one ping for each of the four targets without
\* waiting: after the call the four new requests, one per target in order,
\* are all unanswered and all four targets are loading; and the completion
\* of one ping, failed or not, leaves the other targets' measurements alone.
C4_PingAllStartsFour ==
  [][ /\ PingAll =>
           /\ Len(reqs') = Len(reqs) + 4
           /\ SubSeq(reqs', 1, Len(reqs)) = reqs
           /\ \A i \in 1..4 :
                /\ reqs'[Len(reqs) + i] = NewReq("client", ClientBody(pingTargets[i].id))
                /\ measurements'[i].isLoading = Some(TRUE)
           /\ pingCalls' = pingCalls + 4
           /\ postsSent' = postsSent + 4
      /\ \A k \in 1..Len(reqs) : Ends(k) => OnlyChanges(reqs[k].body.s)
    ]_vars

\* The last ping of a pingAll has failed while the first three are in flight.
C4_Witness ==
  /\ pingCalls = 4
  /\ Len(reqs) = 3
  /\ \A i \in 1..3 : Loading(i) /\ reqs[i].body.s = pingTargets[i].id
  /\ measurements[4].isLoading = Some(FALSE)
  /\ measurements[4].error = Some("Ping error")

\* The measurement of target i is an answer of the route, as the page stores it.
HoldsAnswer(i) ==
  \E resp \in RouteAnswers(ClientBody(measurements[i].id), PageStatuses, PageLatencies) :
    /\ measurements[i].ok = (resp.payload.ok = Some(TRUE))
    /\ measurements[i].latencyMs = resp.payload.latencyMs
    /\ measurements[i].httpStatus = resp.payload.httpStatus
    /\ measurements[i].error = resp.payload.error

HoldsPingError(i) ==
  /\ measurements[i].ok = FALSE
  /\ measurements[i].error = Some("Ping error")

\* C5: if every request to /api/ping eventually resolves or rejects, a
\* target marked loading is eventually marked not loading; and a target that
\* a ping has marked not loading holds the result of an answer, or ok = false
\* with the error "Ping error".
C5_EveryPingEnds ==
  /\ \A i \in 1..4 : Loading(i) ~> ~Loading(i)
  /\ [](\A i \in 1..4 :
          measurements[i].isLoading = Some(FALSE) => HoldsAnswer(i) \/ HoldsPingError(i))

C5_Witness ==
  \E i \in 1..4 :
    /\ measurements[i].isLoading = Some(FALSE)
    /\ HoldsPingError(i)
    /\ pingCalls > 0

\* C9: the list always holds the four targets in their initial order with
\* their initial id, name and host, and a start or a completion of a ping
\* for one id changes the measurement of that id only.
C9_PerTarget ==
  [][ /\ Len(measurements') = 4
      /\ \A i \in 1..4 :
           /\ measurements'[i].id = pingTargets[i].id
           /\ measurements'[i].name = pingTargets[i].name
           /\ measurements'[i].host = pingTargets[i].host
      /\ \A id \in TargetIds : StartsPing(id) => OnlyChanges(id)
      /\ \A k \in 1..Len(reqs) : Ends(k) => OnlyChanges(reqs[k].body.s)
    ]_vars

\* One target holds a result while another has never been pinged.
C9_Witness ==
  \E i, j \in 1..4 :
    /\ measurements[i].isLoading = Some(FALSE)
    /\ measurements[i].ok
    /\ measurements[j] = pingTargets[j]

\* A ping for target i is in flight: its call has not completed.
InFlight(i) ==
  \E k \in 1..Len(reqs) :
    reqs[k].cst = "waiting" /\ reqs[k].body.s = measurements[i].id

\* C11: whenever a target's measurement is marked not loading (which only a
\* ping does), no ping for that target is still in flight, also when pings
\* of one target overlap.
C11_NotLoadingNothingInFlight ==
  \A i \in 1..4 : measurements[i].isLoading = Some(FALSE) => ~InFlight(i)

\* The measurement of target i has every field of the partial as the
\* partial gives it.
Shows(i, partial) ==
  \A f \in DOMAIN partial : measurements[i][f] = partial[f]

\* C12: once every ping of a target has completed, its measurement shows
\* what the ping started last for it delivered, in whatever order the pings
\* completed.
C12_LastStartedWins ==
  \A i \in 1..4 :
    LET l == lastStarted[measurements[i].id] IN
      (l.result # None /\ ~InFlight(i)) => Shows(i, l.result[1])

\* C13: a ping that completes with ok = false and an error (a 400 or 504
\* answer, or a failure on the client) leaves the measurement of its target
\* without latencyMs and without httpStatus, and a ping that completes with
\* ok = true leaves it without error.
C13_NoMixedMeasurement ==
  [][ \A k \in 1..Len(reqs) : \A i \in 1..4 :
        (Ends(k) /\ measurements[i].id = reqs[k].body.s) =>
          /\ (~measurements'[i].ok /\ measurements'[i].error # None) =>
               /\ measurements'[i].latencyMs = None
               /\ measurements'[i].httpStatus = None
          /\ measurements'[i].ok => measurements'[i].error = None
    ]_vars

(***************************************************************************)
(* Properties of the /api/ip route (SpecIp)                                *)
(***************************************************************************)
\* The part of str before its first comma.
FirstEntry(str) ==
  LET commas == {i \in 1..Len(str) : str[i] = ","}
      stop == IF commas = {} THEN Len(str) + 1
              ELSE CHOOSE i \in commas : \A j \in commas : i <= j
  IN SubSeq(str, 1, stop - 1)

\* a is str without the spaces around it.
IsTrimOf(a, str) ==
  /\ a = << >> \/ (a[1] # " " /\ a[Len(a)] # " ")
  /\ \E i \in 0..Len(str) :
       /\ i + Len(a) <= Len(str)
       /\ SubSeq(str, i + 1, i + Len(a)) = a
       /\ \A j \in 1..Len(str) : (j <= i \/ j > i + Len(a)) => str[j] = " "

\* The header value yields the non-empty address a.
Yields(value, a) ==
  /\ value # None
  /\ a # << >>
  /\ IsTrimOf(a, FirstEntry(value[1]))

YieldsSome(value) == \E a \in Strings(MaxLen) : Yields(value, a)

\* C6: the address looked up upstream is the first comma-separated entry,
\* trimmed, of the first header among x-forwarded-for, x-real-ip and
\* x-client-ip that yields a non-empty value; when none does, the upstream
\* is queried without an address.
C6_ForwardsFirstAddress ==
  (ipIn.stage = "fetching") =>
    LET hs == << ipIn.headers.xff, ipIn.headers.xri, ipIn.headers.xci >>
        looked == LookedUp(ipIn.search)
    IN IF \E n \in 1..3 : YieldsSome(hs[n])
         THEN LET first == CHOOSE n \in 1..3 :
                             YieldsSome(hs[n]) /\ \A m \in 1..(n - 1) : ~YieldsSome(hs[m])
              IN looked # None /\ Yields(hs[first], looked[1])
         ELSE looked = None

\* x-forwarded-for is present but yields nothing; x-real-ip has two entries.
C6_Witness ==
  /\ ipIn.stage = "fetching"
  /\ ipIn.headers.xff = Some(<< " ", "," >>)
  /\ ipIn.headers.xri = Some(<< "7", "," >>)
  /\ ipIn.headers.xci = Some(<< "7", "7" >>)
  /\ LookedUp(ipIn.search) = Some(<< "7" >>)

\* C7: an OK upstream answer is relayed as HTTP 200 with every field of the
\* upstream document unchanged and success = true; a non-OK upstream status s
\* as status s with success = false; a thrown request or an unparsable body
\* as status 500 with success = false.
C7_RelaysOutcome ==
  (ipIn.stage = "answered") =>
    LET up == ipOut.up
        resp == ipOut.resp
        ok == up.status >= 200 /\ up.status <= 299
    IN /\ (up.kind = "answers" /\ ok /\ up.parses) =>
            /\ resp.status = 200
            /\ \A f \in DOMAIN up.doc : f \in DOMAIN resp.body /\ resp.body[f] = up.doc[f]
            /\ resp.body.success = TRUE
       /\ (up.kind = "answers" /\ ~ok) =>
            /\ resp.status = up.status
            /\ resp.body.success = FALSE
       /\ (up.kind = "throws" \/ (up.kind = "answers" /\ ok /\ ~up.parses)) =>
            /\ resp.status = 500
            /\ resp.body.success = FALSE

(***************************************************************************)
(* Properties of the IP panel (SpecPanel)                                  *)
(***************************************************************************)
\* The step is the completion of fetch k.
Settles(k) ==
  /\ fetches[k].stage = "pending"
  /\ Len(fetches') = Len(fetches)
  /\ fetches'[k].stage = "done"

LatestFetch == fetches[Len(fetches)]

\* The fetch failed, was answered with a non-OK status, or its answer
\* carried success = false.
FetchFailed(o) ==
  \/ o.kind = "rejects"
  \/ ~o.parses
  \/ o.status < 200 \/ o.status > 299
  \/ ("success" \in DOMAIN o.body /\ o.body.success = FALSE)

\* C14: the outcome of a fetch started before the latest Refresh changes
\* none of ipData, error and loading; loading is false only when the fetch
\* started last has completed; and when loading is false exactly one of
\* ipData and error is set, error exactly when that fetch failed.
C14_PanelFollowsLatestFetch ==
  /\ [][ \A k \in 1..Len(fetches) :
           (Settles(k) /\ k < Len(fetches)) => UNCHANGED <<ipData, error, loading>>
       ]_vars
  /\ [](~loading =>
          /\ LatestFetch.stage = "done"
          /\ (ipData # None) # (error # None)
          /\ (error # None) <=> FetchFailed(LatestFetch.outcome)
          /\ (ipData # None) => ipData = Some(LatestFetch.outcome.body))

\* After a Refresh the earlier fetch has succeeded and the later one has
\* failed: the panel shows the error and no data.
C14_Witness ==
  /\ refreshCount = 1
  /\ fetches[1].stage = "done" /\ ~FetchFailed(fetches[1].outcome)
  /\ ~fetches[1].active
  /\ fetches[2].stage = "done" /\ FetchFailed(fetches[2].outcome)
  /\ ~loading
  /\ error # None
  /\ ipData = None

====
